---------------------------- MODULE Spec2Model ----------------------------
(***************************************************************************)
(* Model of backend_fastapi.py: the geospatial ingestion pipeline          *)
(*   shape_file_conversion  (upload set -> WGS84 GeoJSON + CRS record)     *)
(*   process_plan_geojson   (rate key resolution and V22RATE scaling)      *)
(*   complete_project_file  (boundary synthesis / project assembly)        *)
(*                                                                         *)
(* File names, archive entry names and CRS descriptors are sequences of    *)
(* one-character strings, so that splitext, lower, startswith, endswith    *)
(* and the EPSG regular expression are computed as Python computes them.   *)
(***************************************************************************)
EXTENDS Integers, Sequences, FiniteSets, TLC

VARIABLES
    \* ---- shape_file_conversion ----
    files,        \* the upload list: a sequence of file names
    input_crs,    \* the caller's default CRS
    pc,           \* position inside shape_file_conversion
    shapefiles,   \* candidate file names (line 100)
    tmp,          \* the TemporaryDirectory: "none", "live" or "released"
    tmpFiles,     \* names written into the temporary directory
    filelist,     \* entry names of the opened zip archive (z.filelist)
    shp_in_zip,   \* selected archive entries (line 119)
    handle,       \* what is handed to geopandas.read_file
    myshpfile,    \* the dataset read: its CRS
    ret,          \* the returned dict
    exc,          \* the exception the call ended with, if any
    \* ---- process_plan_geojson ----
    planIn,       \* the plan as passed in
    plan,         \* the plan as mutated by the call
    rate_key,     \* the resolved rate key
    planPc,       \* "call" or "done"
    planExc,      \* the exception the call ended with, if any
    \* ---- complete_project_file ----
    projIn,       \* the ProjectFile as passed in
    project_file, \* the ProjectFile as mutated / returned
    unionCalls,   \* number of unary_union calls made
    projPc,       \* "call" or "done"
    projExc       \* the exception the call ended with, if any

convVars == <<files, input_crs, pc, shapefiles, tmp, tmpFiles, filelist,
              shp_in_zip, handle, myshpfile, ret, exc>>
planVars == <<planIn, plan, rate_key, planPc, planExc>>
projVars == <<projIn, project_file, unionCalls, projPc, projExc>>
vars == <<convVars, planVars, projVars>>

-----------------------------------------------------------------------------
(* Bounds of the model *)

MaxFiles == 2
MaxEntries == 2
MaxFeatures == 2
MaxRate == 2
NumCells == 3

-----------------------------------------------------------------------------
(* Python string operations on sequences of characters *)

UpperChars == <<"A","B","C","D","E","F","G","H","I","J","K","L","M",
                "N","O","P","Q","R","S","T","U","V","W","X","Y","Z">>
LowerChars == <<"a","b","c","d","e","f","g","h","i","j","k","l","m",
                "n","o","p","q","r","s","t","u","v","w","x","y","z">>

\* str.lower on one character
LowerChar(c) ==
    IF \E i \in DOMAIN UpperChars : UpperChars[i] = c
    THEN LowerChars[CHOOSE i \in DOMAIN UpperChars : UpperChars[i] = c]
    ELSE c

\* str.lower
lower(s) == [i \in DOMAIN s |-> LowerChar(s[i])]

\* str.startswith
startswith(s, p) == Len(s) >= Len(p) /\ SubSeq(s, 1, Len(p)) = p

\* str.endswith
endswith(s, p) ==
    Len(s) >= Len(p) /\ SubSeq(s, Len(s) - Len(p) + 1, Len(s)) = p

\* str.rfind of a single character, 1-based; 0 when absent
rfind(s, c) ==
    IF \E i \in DOMAIN s : s[i] = c
    THEN CHOOSE i \in DOMAIN s :
            s[i] = c /\ \A j \in DOMAIN s : s[j] = c => j <= i
    ELSE 0

\* os.path.splitext: the extension starts at the last dot of the last path
\* component, provided a non-dot character precedes it in that component.
splitext(p) ==
    LET sepIndex == rfind(p, "/")
        dotIndex == rfind(p, ".")
    IN  IF /\ dotIndex > sepIndex
           /\ \E k \in (sepIndex + 1)..(dotIndex - 1) : p[k] # "."
        THEN <<SubSeq(p, 1, dotIndex - 1), SubSeq(p, dotIndex, Len(p))>>
        ELSE <<p, <<>> >>

Digits == {"0","1","2","3","4","5","6","7","8","9"}

\* the part of epsg_pattern between ^ and $
EpsgCore(s) ==
    /\ Len(s) \in {9, 10}
    /\ SubSeq(s, 1, 4) \in { <<"E","P","S","G">>, <<"e","p","s","g">> }
    /\ s[5] = ":"
    /\ \A i \in 6..Len(s) : s[i] \in Digits

\* epsg_pattern.match(s) is not None.  Python's $ matches at the end of the
\* string and also just before a newline that ends the string.
epsg_pattern(s) ==
    \/ EpsgCore(s)
    \/ /\ Len(s) > 0
       /\ s[Len(s)] = "\n"
       /\ EpsgCore(SubSeq(s, 1, Len(s) - 1))


-----------------------------------------------------------------------------
(* Exceptions and optional values *)

NoExc == [kind |-> "None", status_code |-> 0, detail |-> ""]

\* raise HTTPException(status_code=..., detail=...)
HTTPException(status, detail) ==
    [kind |-> "HTTPException", status_code |-> status, detail |-> detail]

\* an exception of the Python runtime or a library that no handler catches
Unhandled(kind) == [kind |-> kind, status_code |-> 0, detail |-> ""]

\* Python's None where a CRS descriptor is expected
NoneCRS == <<"None">>

EPSG4326 == <<"E","P","S","G",":","4","3","2","6">>
EPSG25832 == <<"E","P","S","G",":","2","5","8","3","2">>

-----------------------------------------------------------------------------
(* Inputs of shape_file_conversion *)

\* a.shp  B.SHP  c.Zip  d.json  e.GeoJSON  f.txt  .shp  d/a.shp
FileNames ==
    { <<"a",".","s","h","p">>,
      <<"B",".","S","H","P">>,
      <<"c",".","Z","i","p">>,
      <<"d",".","j","s","o","n">>,
      <<"e",".","G","e","o","J","S","O","N">>,
      <<"f",".","t","x","t">>,
      <<".","s","h","p">>,
      <<"d","/","a",".","s","h","p">> }

Uploads == UNION { [1..n -> FileNames] : n \in 0..MaxFiles }

\* x.shp  d/y.SHP  __MACOSX/x.shp  Rx/z.shp  rx/w.shp  x.dbf
EntryNames ==
    { <<"x",".","s","h","p">>,
      <<"d","/","y",".","S","H","P">>,
      <<"_","_","M","A","C","O","S","X","/","x",".","s","h","p">>,
      <<"R","x","/","z",".","s","h","p">>,
      <<"r","x","/","w",".","s","h","p">>,
      <<"x",".","d","b","f">> }

Archives == UNION { [1..n -> EntryNames] : n \in 0..MaxEntries }

CallerCRS == { EPSG4326, EPSG25832 }

\* what the reader may find embedded in a dataset:
\* nothing, EPSG:25832, epsg:4326, EPSG:123, EPSG:123456, Epsg:4326,
\* a raw projection string, EPSG:4326 followed by a newline
DetectedCRS ==
    { NoneCRS,
      EPSG25832,
      <<"e","p","s","g",":","4","3","2","6">>,
      <<"E","P","S","G",":","1","2","3">>,
      <<"E","P","S","G",":","1","2","3","4","5","6">>,
      <<"E","p","s","g",":","4","3","2","6">>,
      <<"+","p","r","o","j","=","u","t","m">>,
      <<"E","P","S","G",":","4","3","2","6","\n">> }

NoHandle == [file |-> <<>>, entry |-> <<>>]
NoDataset == [read |-> FALSE, crs |-> NoneCRS, source |-> NoHandle]
NoGeojson == [from |-> NoneCRS, to |-> NoneCRS, source |-> NoHandle]
NoRet == [file_name |-> <<>>, geojson |-> NoGeojson,
          input_crs |-> NoneCRS, original_crs |-> NoneCRS]

-----------------------------------------------------------------------------
(* shape_file_conversion *)

SpatialExtensions ==
    { <<".","s","h","p">>, <<".","z","i","p">>,
      <<".","j","s","o","n">>, <<".","g","e","o","j","s","o","n">> }

\* mutant of IsCandidate: the extension is compared case-sensitively
IsCandidateCaseSensitive(name) == splitext(name)[2] \in SpatialExtensions

\* the filter of the list comprehension at line 100
IsCandidate(name) == lower(splitext(name)[2]) \in SpatialExtensions

\* mutant of InShpInZip: the __MACOSX/ exclusion is missing
InShpInZipNoMacosx(name) ==
    /\ endswith(lower(name), <<".","s","h","p">>)
    /\ ~ startswith(name, <<"R","x","/">>)

\* the filter of the list comprehension at line 119
InShpInZip(name) ==
    /\ endswith(lower(name), <<".","s","h","p">>)
    /\ ~ startswith(name, <<"_","_","M","A","C","O","S","X","/">>)
    /\ ~ startswith(name, <<"R","x","/">>)

\* mutant of TemporaryDirectoryExit: the directory is left behind
TemporaryDirectoryLeak(t) == t

\* leaving the `with tempfile.TemporaryDirectory()` block, by return or by
\* exception: the directory and everything in it is removed
TemporaryDirectoryExit(t) == IF t = "live" THEN "released" ELSE t

\* open(os.path.join(dir_name, name), "wb") fails when name points into a
\* subdirectory, which the fresh temporary directory does not have
Writable(name) == rfind(name, "/") = 0

\* GeoDataFrame.set_crs(crs)
set_crs(gdf, crs) == [gdf EXCEPT !.crs = crs]

\* GeoDataFrame.to_crs(target).to_json(): the geometries of the dataset,
\* reprojected from the CRS the frame carries to the target CRS
to_crs(gdf, target) == [from |-> gdf.crs, to |-> target, source |-> gdf.source]

InitConvVars ==
    /\ pc = "call"
    /\ shapefiles = <<>>
    /\ tmp = "none"
    /\ tmpFiles = {}
    /\ filelist = [opened |-> FALSE, names |-> <<>>]
    /\ shp_in_zip = <<>>
    /\ handle = NoHandle
    /\ myshpfile = NoDataset
    /\ ret = NoRet
    /\ exc = NoExc

\* an exception propagates out of the with block to the caller
RaiseInWith(e) ==
    /\ exc' = e
    /\ tmp' = TemporaryDirectoryExit(tmp)
    /\ tmpFiles' = IF tmp' = "released" THEN {} ELSE tmpFiles
    /\ pc' = "done"

\* lines 100-110: candidate filter, the two early raises, entering the with
Filter ==
    /\ pc = "call"
    /\ shapefiles' = SelectSeq(files, IsCandidate)
    /\ IF Len(shapefiles') = 0
       THEN /\ exc' = HTTPException(404, "No shape data provided.")
            /\ pc' = "done"
            /\ tmp' = tmp
       ELSE IF Len(shapefiles') > 1
       THEN /\ exc' = HTTPException(500, "Too many files.")
            /\ pc' = "done"
            /\ tmp' = tmp
       ELSE /\ exc' = exc
            /\ pc' = "write"
            /\ tmp' = "live"
    /\ UNCHANGED <<files, input_crs, tmpFiles, filelist, shp_in_zip, handle,
                   myshpfile, ret>>
    /\ UNCHANGED <<planVars, projVars>>

\* lines 111-113: every uploaded file is written into the directory
WriteFiles ==
    /\ pc = "write"
    /\ IF \A i \in DOMAIN files : Writable(files[i])
       THEN /\ tmpFiles' = { files[i] : i \in DOMAIN files }
            /\ pc' = "resolve"
            /\ UNCHANGED <<tmp, exc>>
       ELSE RaiseInWith(Unhandled("FileNotFoundError"))
    /\ UNCHANGED <<files, input_crs, shapefiles, filelist, shp_in_zip, handle,
                   myshpfile, ret>>
    /\ UNCHANGED <<planVars, projVars>>

\* lines 114-128, zip branch: the archive is opened and its entries filtered
ResolveZip ==
    /\ pc = "resolve"
    /\ endswith(lower(shapefiles[1]), <<".","z","i","p">>)
    /\ \/ /\ RaiseInWith(Unhandled("BadZipFile"))
          /\ UNCHANGED <<filelist, shp_in_zip, handle>>
       \/ \E names \in Archives :
            /\ filelist' = [opened |-> TRUE, names |-> names]
            /\ shp_in_zip' = SelectSeq(names, InShpInZip)
            /\ IF Len(shp_in_zip') > 1
               THEN /\ RaiseInWith(HTTPException(500, "Too many files."))
                    /\ handle' = handle
               ELSE IF Len(shp_in_zip') = 0
               THEN /\ RaiseInWith(Unhandled("IndexError"))
                    /\ handle' = handle
               ELSE /\ handle' = [file |-> shapefiles[1],
                                  entry |-> shp_in_zip'[1]]
                    /\ pc' = "read"
                    /\ UNCHANGED <<tmp, tmpFiles, exc>>
    /\ UNCHANGED <<files, input_crs, shapefiles, myshpfile, ret>>
    /\ UNCHANGED <<planVars, projVars>>

\* lines 129-130: the sole candidate is read as it is
ResolvePlain ==
    /\ pc = "resolve"
    /\ ~ endswith(lower(shapefiles[1]), <<".","z","i","p">>)
    /\ handle' = [file |-> shapefiles[1], entry |-> <<>>]
    /\ pc' = "read"
    /\ UNCHANGED <<files, input_crs, shapefiles, tmp, tmpFiles, filelist,
                   shp_in_zip, myshpfile, ret, exc>>
    /\ UNCHANGED <<planVars, projVars>>

\* geopandas.read_file (lines 128, 130): a parse failure, or a dataset with
\* or without an embedded CRS
Read ==
    /\ pc = "read"
    /\ handle.file \in tmpFiles
    /\ \/ /\ RaiseInWith(Unhandled("DriverError"))
          /\ UNCHANGED myshpfile
       \/ \E crs \in DetectedCRS :
            /\ myshpfile' = [read |-> TRUE, crs |-> crs, source |-> handle]
            /\ pc' = "crs"
            /\ UNCHANGED <<tmp, tmpFiles, exc>>
    /\ UNCHANGED <<files, input_crs, shapefiles, filelist, shp_in_zip, handle,
                   ret>>
    /\ UNCHANGED <<planVars, projVars>>

\* lines 138-143 after the CRS of the frame has been settled as gdf
Return(gdf, original_crs) ==
    \/ /\ ret' = [file_name |-> splitext(shapefiles[1])[1],
                  geojson |-> to_crs(gdf, EPSG4326),
                  input_crs |-> input_crs,
                  original_crs |-> original_crs]
       /\ exc' = exc
       /\ tmp' = TemporaryDirectoryExit(tmp)
       /\ tmpFiles' = IF tmp' = "released" THEN {} ELSE tmpFiles
       /\ pc' = "done"
    \/ \* to_crs cannot transform from the frame's CRS
       /\ RaiseInWith(Unhandled("CRSError"))
       /\ ret' = ret

\* lines 131-143: CRS detection, override, reprojection, return
Normalize ==
    /\ pc = "crs"
    /\ IF myshpfile.crs # NoneCRS
       THEN IF ~ epsg_pattern(myshpfile.crs)
            THEN \/ Return(set_crs(myshpfile, input_crs), myshpfile.crs)
                 \/ \* set_crs without allow_override on a frame whose CRS
                    \* differs from input_crs
                    /\ RaiseInWith(Unhandled("ValueError"))
                    /\ ret' = ret
            ELSE Return(myshpfile, myshpfile.crs)
       ELSE Return(set_crs(myshpfile, input_crs), NoneCRS)
    /\ UNCHANGED <<files, input_crs, shapefiles, filelist, shp_in_zip, handle,
                   myshpfile>>
    /\ UNCHANGED <<planVars, projVars>>

-----------------------------------------------------------------------------
(* Inputs of process_plan_geojson *)

RateVals == (-1)..MaxRate

\* attribute-name sets of a feature
KeySets ==
    { {}, {"name"}, {"RATE"}, {"rate"}, {"Menge"},
      {"fertilizer", "name"}, {"RATE", "rate"} }

\* a feature's properties: a mapping of attribute name to number
Properties == { [k \in ks |-> v] : ks \in KeySets, v \in RateVals }

\* the dict shape_file_conversion returns, reduced to the properties of the
\* features of its "geojson" and the keys process_plan_geojson adds
Plans ==
    { [features |-> fs, added |-> <<>>] :
        fs \in UNION { [1..n -> Properties] : n \in 0..MaxFeatures } }

NoPlan == [features |-> <<>>, added |-> <<>>]

-----------------------------------------------------------------------------
(* process_plan_geojson *)

\* the alias list at line 151
KnownRateAliases == {"RATE", "Menge", "rate", "fertilizer"}

RECURSIVE GCD(_, _)
GCD(a, b) == IF b = 0 THEN a ELSE GCD(b, a % b)

Abs(a) == IF a < 0 THEN -a ELSE a

\* Python's true division a / b of two ints, b > 0, as the quotient in
\* lowest terms
TrueDiv(a, b) ==
    LET g == GCD(Abs(a), b)
    IN  [num |-> a \div g, den |-> b \div g]

\* the built-in min of a non-empty list
PyMin(s) == CHOOSE m \in { s[i] : i \in DOMAIN s } :
               \A i \in DOMAIN s : m <= s[i]

\* mutant of PyMax: the smallest value is taken
PyMaxTakesMin(s) == PyMin(s)

\* the built-in max of a non-empty list
PyMax(s) == CHOOSE m \in { s[i] : i \in DOMAIN s } :
               \A i \in DOMAIN s : m >= s[i]

\* the filter of the list comprehension at line 157
IsPositive(v) == v > 0

\* [_property[rate_key] for _property in all_properties if ... > 0]
RateValues(all_properties, key) ==
    SelectSeq([i \in DOMAIN all_properties |-> all_properties[i][key]],
              IsPositive)

\* lines 165-166: every feature gets V22RATE
WithV22RATE(props, key, max_rate) ==
    [k \in DOMAIN props \cup {"V22RATE"} |->
        IF k = "V22RATE" THEN TrueDiv(props[key], max_rate) ELSE props[k]]

InitPlanVars ==
    /\ plan = planIn
    /\ rate_key = "None"
    /\ planPc = "call"
    /\ planExc = NoExc

IdlePlanVars ==
    /\ planIn = NoPlan
    /\ plan = NoPlan
    /\ rate_key = "None"
    /\ planPc = "idle"
    /\ planExc = NoExc

PlanRaise(e) ==
    /\ planExc' = e
    /\ plan' = plan
    /\ rate_key' = rate_key

\* lines 146-167
process_plan_geojson ==
    /\ planPc = "call"
    /\ planPc' = "done"
    /\ LET all_properties == plan.features
       IN  IF Len(all_properties) = 0
           THEN \* all_properties[0]
                PlanRaise(Unhandled("IndexError"))
           ELSE
           LET known_rate_keys ==
                   (DOMAIN all_properties[1]) \cap KnownRateAliases
           IN  IF Cardinality(known_rate_keys) # 1
               THEN PlanRaise(HTTPException(404, "No unique rate key found."))
               ELSE
               LET key == CHOOSE k \in known_rate_keys : TRUE
               IN  IF \E i \in DOMAIN all_properties :
                         key \notin DOMAIN all_properties[i]
                   THEN \* _property[rate_key] of a feature without the key
                        /\ PlanRaise(Unhandled("KeyError"))
                   ELSE
                   LET rate_values == RateValues(all_properties, key)
                   IN  IF Len(rate_values) = 0
                       THEN \* min() of an empty list
                            PlanRaise(Unhandled("ValueError"))
                       ELSE
                       LET max_rate == PyMax(rate_values)
                       IN  /\ rate_key' = key
                           /\ planExc' = planExc
                           /\ plan' =
                                [features |->
                                   [i \in DOMAIN all_properties |->
                                      WithV22RATE(all_properties[i], key,
                                                  max_rate)],
                                 added |->
                                   [k \in {"min_rate", "max_rate"} |->
                                      IF k = "min_rate"
                                      THEN PyMin(rate_values)
                                      ELSE max_rate]]
    /\ UNCHANGED planIn
    /\ UNCHANGED <<convVars, projVars>>

-----------------------------------------------------------------------------
(* Inputs of complete_project_file *)

\* A geometry is the set of unit cells 1..NumCells of a strip that it covers.
Cells == 1..NumCells

Contiguous(cs) == \A a \in cs, b \in cs, c \in Cells : a < c /\ c < b => c \in cs

\* the geometry covering the cells cs, as shapely types it
GeometryOf(cs) ==
    [type |-> IF cs = {} THEN "GeometryCollection"
              ELSE IF Contiguous(cs) THEN "Polygon" ELSE "MultiPolygon",
     cells |-> cs]

PolygonCells == { cs \in SUBSET Cells : cs # {} /\ Contiguous(cs) }

Feature(geometry, properties) ==
    [geometry |-> geometry, properties |-> properties]

PlanFeatures ==
    { Feature(GeometryOf(cs), p) :
        cs \in PolygonCells, p \in { <<>>, [k \in {"rate"} |-> 1] } }

\* FeatureCollection | None
NoneFC == [present |-> FALSE, features |-> <<>>]
FeatureCollection(features) == [present |-> TRUE, features |-> features]

PlanInputs ==
    {NoneFC} \cup
    { FeatureCollection(fs) :
        fs \in UNION { [1..n -> PlanFeatures] : n \in 0..MaxFeatures } }

BoundaryInputs ==
    { NoneFC,
      FeatureCollection(<<>>),
      FeatureCollection(<<Feature(GeometryOf({1}), <<>>)>>),
      FeatureCollection(<<Feature(GeometryOf(Cells), [k \in {"name"} |-> 1])>>) }

\* Settings: the defaults of lines 76-79 and one other value, in tenths
DefaultSettings ==
    [throwing_range |-> 150, min_speed |-> 10, default_rate |-> 0,
     default_speed |-> 22]
SettingsInputs ==
    { DefaultSettings, [DefaultSettings EXCEPT !.throwing_range = 240] }

ProjectFiles ==
    [boundaries : BoundaryInputs, plan : PlanInputs, settings : SettingsInputs]

NoProject ==
    [boundaries |-> NoneFC, plan |-> NoneFC, settings |-> DefaultSettings]

-----------------------------------------------------------------------------
(* complete_project_file *)

\* shapely.ops.unary_union over the geometries of the features
unary_union(features) ==
    GeometryOf(UNION { features[i].geometry.cells : i \in DOMAIN features })

\* the six geometry types the Geometry model accepts (lines 51-58)
GeometryTypes ==
    {"Point", "MultiPoint", "LineString", "MultiLineString", "Polygon",
     "MultiPolygon"}

\* mutant of BoundariesMissing: a boundary is synthesized whenever a plan is
\* there to synthesize it from
BoundariesMissingOrPlan(pf) == ~ pf.boundaries.present \/ pf.plan.present

\* project_file.boundaries is None (line 177)
BoundariesMissing(pf) == ~ pf.boundaries.present

InitProjVars ==
    /\ project_file = projIn
    /\ unionCalls = 0
    /\ projPc = "call"
    /\ projExc = NoExc

IdleProjVars ==
    /\ projIn = NoProject
    /\ project_file = NoProject
    /\ unionCalls = 0
    /\ projPc = "idle"
    /\ projExc = NoExc

\* lines 176-197
complete_project_file ==
    /\ projPc = "call"
    /\ projPc' = "done"
    /\ IF BoundariesMissing(project_file)
       THEN IF ~ project_file.plan.present
            THEN /\ projExc' = HTTPException(404,
                                   "No boundaries or plan provided.")
                 /\ UNCHANGED <<project_file, unionCalls>>
            ELSE IF project_file.plan.features = <<>>
            THEN \* no guard for a plan without features: the frame built
                 \* from no rows has no geometry column (AttributeError at
                 \* gdf.geometry), and an empty union is no Geometry the
                 \* Feature model accepts (ValidationError)
                 /\ \E kind \in {"AttributeError", "ValidationError"} :
                        projExc' = Unhandled(kind)
                 /\ UNCHANGED <<project_file, unionCalls>>
            ELSE LET merged_polygons ==
                         unary_union(project_file.plan.features)
                 IN  IF merged_polygons.type \notin GeometryTypes
                     THEN /\ projExc' = Unhandled("ValidationError")
                          /\ unionCalls' = unionCalls + 1
                          /\ UNCHANGED project_file
                     ELSE /\ project_file' =
                                [project_file EXCEPT !.boundaries =
                                   FeatureCollection(
                                     <<Feature(merged_polygons, <<>>)>>)]
                          /\ unionCalls' = unionCalls + 1
                          /\ projExc' = projExc
       ELSE UNCHANGED <<project_file, unionCalls, projExc>>
    /\ UNCHANGED projIn
    /\ UNCHANGED <<convVars, planVars>>

-----------------------------------------------------------------------------
(* Specifications *)

IdleConvVars ==
    /\ files = <<>>
    /\ input_crs = EPSG4326
    /\ pc = "idle"
    /\ shapefiles = <<>>
    /\ tmp = "none"
    /\ tmpFiles = {}
    /\ filelist = [opened |-> FALSE, names |-> <<>>]
    /\ shp_in_zip = <<>>
    /\ handle = NoHandle
    /\ myshpfile = NoDataset
    /\ ret = NoRet
    /\ exc = NoExc

\* one call of shape_file_conversion(files, input_crs)
InitConv ==
    /\ files \in Uploads
    /\ input_crs \in CallerCRS
    /\ InitConvVars
    /\ IdlePlanVars
    /\ IdleProjVars

NextConv ==
    \/ Filter
    \/ WriteFiles
    \/ ResolveZip
    \/ ResolvePlain
    \/ Read
    \/ Normalize

SpecConv == InitConv /\ [][NextConv]_vars

\* one call of process_plan_geojson(plan)
InitPlan ==
    /\ planIn \in Plans
    /\ InitPlanVars
    /\ IdleConvVars
    /\ IdleProjVars

NextPlan == process_plan_geojson

SpecPlan == InitPlan /\ [][NextPlan]_vars

\* one call of complete_project_file(project_file)
InitProj ==
    /\ projIn \in ProjectFiles
    /\ InitProjVars
    /\ IdleConvVars
    /\ IdlePlanVars

NextProj == complete_project_file

SpecProj == InitProj /\ [][NextProj]_vars

-----------------------------------------------------------------------------
(* Properties of shape_file_conversion, checked under SpecConv *)

\* a file whose extension, compared case-insensitively, is a spatial one
HasSpatialExtension(name) == lower(splitext(name)[2]) \in SpatialExtensions

NumCandidates ==
    Cardinality({ i \in DOMAIN files : HasSpatialExtension(files[i]) })

NoShapeData == HTTPException(404, "No shape data provided.")
TooManyFiles == HTTPException(500, "Too many files.")

\* C1: once the candidate filter has run, an upload with no candidate has
\* failed with 404 "No shape data provided." (NoSpatialData), an upload with
\* more than one candidate has failed with 500 "Too many files."
\* (AmbiguousInput), in both cases without a handle or a dataset read; an
\* upload with exactly one candidate has gone on into the temporary
\* directory, and a dataset is only ever read for such an upload.
C1_CandidateCount ==
    pc # "call" =>
        /\ NumCandidates = 0 =>
              /\ pc = "done" /\ exc = NoShapeData
              /\ handle = NoHandle /\ ~ myshpfile.read
        /\ NumCandidates > 1 =>
              /\ pc = "done" /\ exc = TooManyFiles
              /\ handle = NoHandle /\ ~ myshpfile.read
        /\ NumCandidates = 1 => tmp # "none" /\ exc # NoShapeData
        /\ myshpfile.read => NumCandidates = 1

\* two .shp files, one of them spelled in capitals, ended in "Too many files."
C1_Witness ==
    /\ files = << <<"a",".","s","h","p">>, <<"B",".","S","H","P">> >>
    /\ pc = "done"
    /\ exc = TooManyFiles

\* an archive entry that ends in .shp (case-insensitively) outside the
\* reserved directories
EligibleEntry(name) ==
    /\ endswith(lower(name), <<".","s","h","p">>)
    /\ ~ startswith(name, <<"_","_","M","A","C","O","S","X","/">>)
    /\ ~ startswith(name, <<"R","x","/">>)

EligibleIndexes ==
    { i \in DOMAIN filelist.names : EligibleEntry(filelist.names[i]) }

\* C2: when the opened archive holds no eligible entry, the call ends with an
\* explicit HTTP error of its own, not with an unhandled exception.
C2_NoShapefileInArchiveExplicit ==
    (pc = "done" /\ filelist.opened /\ EligibleIndexes = {}) =>
        /\ exc.kind = "HTTPException"
        /\ exc # TooManyFiles
        /\ exc # NoShapeData

\* C3: once the archive has been opened: with exactly one eligible entry the
\* handle names that entry of the sole candidate and the dataset read is
\* read from it; with more than one the call has failed with 500 "Too many
\* files." and nothing was read; any entry handed to the reader is eligible.
C3_ArchiveEntrySelected ==
    filelist.opened =>
        /\ Cardinality(EligibleIndexes) = 1 =>
              /\ handle = [file |-> shapefiles[1],
                           entry |-> filelist.names[
                                        CHOOSE i \in EligibleIndexes : TRUE]]
              /\ myshpfile.read => myshpfile.source = handle
        /\ Cardinality(EligibleIndexes) > 1 =>
              /\ pc = "done" /\ exc = TooManyFiles
              /\ handle = NoHandle /\ ~ myshpfile.read
        /\ handle.entry # <<>> => EligibleEntry(handle.entry)

\* an archive with x.shp and __MACOSX/x.shp was read from x.shp
C3_Witness ==
    /\ filelist.opened
    /\ \E i \in DOMAIN filelist.names :
          filelist.names[i] =
             <<"_","_","M","A","C","O","S","X","/","x",".","s","h","p">>
    /\ myshpfile.read
    /\ myshpfile.source.entry = <<"x",".","s","h","p">>

\* the CRS the geometries are to be reprojected from
EffectiveInputCRS ==
    IF myshpfile.crs # NoneCRS /\ epsg_pattern(myshpfile.crs)
    THEN myshpfile.crs
    ELSE input_crs

\* C4: a successful conversion reports as input_crs the effective input CRS
\* (the detected CRS when it has the EPSG form, else the caller default), the
\* geometries are reprojected from that CRS to EPSG:4326, and original_crs
\* is the detected CRS or None.
C4_ReportedInputCRS ==
    (pc = "done" /\ exc = NoExc) =>
        /\ ret.geojson.from = EffectiveInputCRS
        /\ ret.geojson.to = EPSG4326
        /\ ret.input_crs = EffectiveInputCRS
        /\ ret.original_crs = myshpfile.crs

\* C10: when the call is over the temporary directory is not left behind:
\* it was never created when the candidate count was not one, and it was
\* created and removed, with everything written into it, otherwise.
C10_TempDirReleased ==
    /\ tmp = "live" => pc \in {"write", "resolve", "read", "crs"}
    /\ pc = "done" =>
          /\ tmpFiles = {}
          /\ IF NumCandidates = 1 THEN tmp = "released" ELSE tmp = "none"

\* a parse failure of the reader, after the files were written
C10_Witness ==
    /\ pc = "done"
    /\ exc.kind = "DriverError"
    /\ tmp = "released"

-----------------------------------------------------------------------------
(* Properties of process_plan_geojson, checked under SpecPlan *)

\* the aliases among the attribute names of the first feature
FirstFeatureAliases ==
    IF planIn.features = <<>>
    THEN {}
    ELSE (DOMAIN planIn.features[1]) \cap {"RATE", "Menge", "rate", "fertilizer"}

Returned == planPc = "done" /\ planExc = NoExc

\* the rate values of the input plan under the resolved key
RateOf(i) == planIn.features[i][rate_key]
PositiveRates ==
    { RateOf(i) : i \in { j \in DOMAIN planIn.features : RateOf(j) > 0 } }
MaxPositiveRate == CHOOSE m \in PositiveRates : \A r \in PositiveRates : r <= m

\* C5: a plan whose features all carry the resolved key with no strictly
\* positive value ends in an explicit HTTP error, not an unhandled one.
C5_NoPositiveRateValuesExplicit ==
    ( /\ planPc = "done"
      /\ Cardinality(FirstFeatureAliases) = 1
      /\ \A i \in DOMAIN planIn.features :
            /\ FirstFeatureAliases \subseteq DOMAIN planIn.features[i]
            /\ \A k \in FirstFeatureAliases : planIn.features[i][k] <= 0 )
    => planExc.kind = "HTTPException"

\* C6 (as claimed): after a successful call every feature carries
\* V22RATE = rate / max_rate and every V22RATE lies in [0,1].
C6_V22RATEInUnitInterval ==
    Returned =>
        \A i \in DOMAIN plan.features :
            LET v == plan.features[i]["V22RATE"]
            IN  /\ v = TrueDiv(RateOf(i), MaxPositiveRate)
                /\ 0 <= v.num /\ v.num <= v.den

\* C6 (amended): after a successful call every feature carries
\* V22RATE = rate / max_rate with max_rate the largest strictly positive
\* rate; every V22RATE is at most 1, and it is at least 0 exactly when the
\* feature's rate is not negative.
C6_V22RATEAtMostOne ==
    Returned =>
        /\ plan.added["max_rate"] = MaxPositiveRate
        /\ \A i \in DOMAIN plan.features :
            LET v == plan.features[i]["V22RATE"]
            IN  /\ v = TrueDiv(RateOf(i), MaxPositiveRate)
                /\ v.den > 0
                /\ v.num <= v.den
                /\ (0 <= v.num) <=> (RateOf(i) >= 0)

\* a plan with a negative and a positive rate was scaled
C6_Witness ==
    /\ Returned
    /\ \E i \in DOMAIN plan.features : plan.features[i]["V22RATE"].num < 0
    /\ \E i \in DOMAIN plan.features : plan.features[i]["V22RATE"].num > 0

\* C7: the call resolves a key only when the first feature carries exactly
\* one alias, and that alias is the key; in every other case it ends with
\* 404 "No unique rate key found." and the plan is as it was passed in.
C7_UniqueRateKey ==
    planPc = "done" =>
        IF Cardinality(FirstFeatureAliases) = 1
        THEN planExc = NoExc => rate_key \in FirstFeatureAliases
        ELSE /\ planExc = HTTPException(404, "No unique rate key found.")
             /\ plan = planIn
             /\ rate_key = "None"

-----------------------------------------------------------------------------
(* Properties of complete_project_file, checked under SpecProj *)

\* the cells covered by the features of the input plan
PlanCover ==
    UNION { projIn.plan.features[i].geometry.cells :
              i \in DOMAIN projIn.plan.features }

ProjReturned == projPc = "done" /\ projExc = NoExc

\* C8: boundaries given: returned as passed in, no union computed; no
\* boundaries but a plan: what is returned has the union of the plan as its
\* boundaries and the plan and settings as passed in; neither: 404 "No
\* boundaries or plan provided."; whatever is returned has boundaries.
C8_BoundariesAfterAssembly ==
    projPc = "done" =>
        /\ projIn.boundaries.present =>
              /\ projExc = NoExc
              /\ project_file = projIn
              /\ unionCalls = 0
        /\ (~ projIn.boundaries.present /\ projIn.plan.present
              /\ projExc = NoExc) =>
              /\ project_file.boundaries =
                    FeatureCollection(<<Feature(GeometryOf(PlanCover), <<>>)>>)
              /\ project_file.plan = projIn.plan
              /\ project_file.settings = projIn.settings
        /\ (~ projIn.boundaries.present /\ ~ projIn.plan.present) =>
              projExc = HTTPException(404, "No boundaries or plan provided.")
        /\ projExc = NoExc => project_file.boundaries.present

\* two plan features that do not touch were merged into the boundaries
C8_Witness ==
    /\ ProjReturned
    /\ ~ projIn.boundaries.present
    /\ Len(projIn.plan.features) >= 2
    /\ project_file.boundaries.present
    /\ project_file.boundaries.features[1].geometry.type = "MultiPolygon"

\* C9: synthesis from a plan without features ends in an explicit HTTP error
\* (EmptyPlan) and returns nothing; from a plan with features, what is
\* returned has one boundary feature with empty properties.
C9_EmptyPlanExplicit ==
    (projPc = "done" /\ ~ projIn.boundaries.present /\ projIn.plan.present) =>
        IF projIn.plan.features = <<>>
        THEN projExc.kind = "HTTPException"
        ELSE projExc = NoExc =>
                /\ Len(project_file.boundaries.features) = 1
                /\ project_file.boundaries.features[1].properties = <<>>

=============================================================================
